---------------------------- MODULE Spec2Model ----------------------------
(***************************************************************************)
(* TON-ACCESS-MCP: the endpoint resolver of src/ton-access-mcp.ts.         *)
(*                                                                         *)
(* The six operations of class TonAccessMCP are modelled as operators that *)
(* compute what the TypeScript computes: the optional config and its       *)
(* optional fields, JavaScript's || defaulting (a falsy value gives the    *)
(* default), the template literals that build the URLs, and the throw of   *)
(* the V4 operations.  A call is one atomic action: no operation has a     *)
(* suspension point other than the await of the sibling method.            *)
(*                                                                         *)
(* A string that is taken apart again (a URL) is a sequence of tokens:     *)
(* the scheme "https://", the separator "/", and slash-free chunks.  A     *)
(* template literal concatenates its pieces, so an empty piece leaves no   *)
(* token behind.                                                           *)
(*                                                                         *)
(* The environment of the resolver (the clock, the fleet manager and the   *)
(* snapshot of node records it serves) is state of its own, changed by     *)
(* environment actions only.                                               *)
(***************************************************************************)
EXTENDS Integers, Sequences, FiniteSets, TLC

VARIABLES
    pc,         \* "idle": no call outstanding; "done": a call has settled
    op,         \* the operation of the last call ("none" when idle)
    via,        \* how it was called: "method" of a TonAccessMCP instance, or
                \* the standalone exported "function" ("none" when idle)
    config,     \* its config argument: <<>> (omitted) or <<cfg>>
    single,     \* its single argument: "omitted", "true" or "false"
    result,     \* its outcome: a returned value or a thrown error, with
                \* the statements the call went through, in order
    snapshot,   \* environment: the manager's fleet data and its age
    managerUp   \* environment: whether a fetch of the manager would succeed

vars == <<pc, op, via, config, single, result, snapshot, managerUp>>

callVars == <<pc, op, via, config, single, result>>
envVars == <<snapshot, managerUp>>

---------------------------------------------------------------------------
(* Bounds of the model *)

\* The environment's clock stops once the snapshot is this many minutes old.
MaxAge == 11

(* Types of src/ton-access-mcp.ts *)

Network == {"mainnet", "testnet"}

ProtocolFormat == {"default", "json-rpc", "rest"}

\* Hosts a caller passes: a custom host, and the empty string (falsy).
Hosts == {"", "my.edge.host"}

\* Access versions a caller passes: 0 is falsy in JavaScript.
AccessVersions == {0, 1, 2}

\* A record with no field (an object literal {}).
EmptyObject == <<>>

\* interface TonAccessConfig: every field is optional.
TonAccessConfig ==
    { n @@ h @@ v @@ p :
        n \in {EmptyObject} \cup {[network |-> x] : x \in Network},
        h \in {EmptyObject} \cup {[host |-> x] : x \in Hosts},
        v \in {EmptyObject} \cup {[accessVersion |-> x] : x \in AccessVersions},
        p \in {EmptyObject} \cup {[protocol |-> x] : x \in ProtocolFormat} }

\* The argument config?: omitted, or a TonAccessConfig.
ConfigArgs == {<<>>} \cup {<<c>> : c \in TonAccessConfig}

\* The argument single?: omitted, true or false.
SingleArgs == {"omitted", "true", "false"}

---------------------------------------------------------------------------
(* JavaScript expressions the operations use *)

\* config?.field is undefined when config or the field is omitted.
Has(c, f) == c # <<>> /\ f \in DOMAIN c[1]

\* config?.protocol === fmt
ProtocolIs(c, fmt) == Has(c, "protocol") /\ c[1].protocol = fmt

\* Mutant: the network of the config is ignored.
NetworkOr_AlwaysMainnet(c) == "mainnet"

\* config?.network || "mainnet"
NetworkOr(c) ==
    IF Has(c, "network") /\ c[1].network # "" THEN c[1].network ELSE "mainnet"

\* Mutant: the host has no default, and the template prints undefined.
HostOr_NoDefault(c) ==
    IF Has(c, "host") /\ c[1].host # "" THEN c[1].host ELSE "undefined"

\* config?.host || "ton.access.orbs.network"
HostOr(c) ==
    IF Has(c, "host") /\ c[1].host # "" THEN c[1].host
    ELSE "ton.access.orbs.network"

\* Mutant: config?.accessVersion ?? 1, which keeps a 0 that is given.
VersionOr_Nullish(c) ==
    IF Has(c, "accessVersion") THEN c[1].accessVersion ELSE 1

\* Mutant: the accessVersion of the config is ignored.
VersionOr_AlwaysOne(c) == 1

\* config?.accessVersion || 1
VersionOr(c) ==
    IF Has(c, "accessVersion") /\ c[1].accessVersion # 0
    THEN c[1].accessVersion ELSE 1

\* config?.protocol === "rest" ? "" : "jsonRPC"
SuffixOf(c) == IF ProtocolIs(c, "rest") THEN "" ELSE "jsonRPC"

\* Mutant: if (single !== false), which takes an omitted single as true.
Truthy_UnlessFalse(s) == s # "false"

\* if (single): undefined and false are falsy.
Truthy(s) == s = "true"

\* A template literal: the concatenation of its pieces; an empty piece
\* contributes no character.
Template(pieces) == SelectSeq(pieces, LAMBDA t : t # "")

\* Mutant: the version and the network change places in the template.
V2Url_NetworkBeforeVersion(host, nodeId, version, network, protocol) ==
    Template(<<"https://", host, "/", nodeId, "/", network, "/",
               ToString(version), "/", "toncenter-api-v2", "/", protocol>>)

\* `https://${host}/${nodeId}/${version}/${network}/toncenter-api-v2/${protocol}`
V2Url(host, nodeId, version, network, protocol) ==
    Template(<<"https://", host, "/", nodeId, "/", ToString(version), "/",
               network, "/", "toncenter-api-v2", "/", protocol>>)

\* Mutant: the template ends in a slash, as the toncenter one does.
V4Url_TrailingSlash(host, nodeId, version, network) ==
    Template(<<"https://", host, "/", nodeId, "/", ToString(version), "/",
               network, "/", "ton-api-v4", "/">>)

\* `https://${host}/${nodeId}/${version}/${network}/ton-api-v4`
V4Url(host, nodeId, version, network) ==
    Template(<<"https://", host, "/", nodeId, "/", ToString(version), "/",
               network, "/", "ton-api-v4">>)

\* Outcomes of an async method: the promise resolves or rejects.
Return(v, st) == [kind |-> "ok", value |-> v, steps |-> st]
Throw(msg, st) == [kind |-> "error", message |-> msg, steps |-> st]

UnsupportedMessage ==
    "config.protocol json-rpc is not supported for getTonApiV4Endpoints"

---------------------------------------------------------------------------
(* class TonAccessMCP *)

\* Mutant: the method asks the manager first, and fails when it is down.
getHttpEndpoint_AsksManager(c) ==
    IF ~managerUp
    THEN Throw("exception in fetch", <<"fetch">>)
    ELSE Return(V2Url(HostOr(c), "[node-id]", VersionOr(c), NetworkOr(c),
                      SuffixOf(c)),
                <<"fetch", "defaults", "build">>)

getHttpEndpoint(c) ==
    Return(V2Url(HostOr(c), "[node-id]", VersionOr(c), NetworkOr(c), SuffixOf(c)),
           <<"defaults", "build">>)

\* Mutant: the single flag is ignored.
getHttpEndpoints_IgnoresSingle(c, s) ==
    Return(<<V2Url(HostOr(c), "node1", VersionOr(c), NetworkOr(c), SuffixOf(c)),
             V2Url(HostOr(c), "node2", VersionOr(c), NetworkOr(c), SuffixOf(c)),
             V2Url(HostOr(c), "node3", VersionOr(c), NetworkOr(c), SuffixOf(c))>>,
           <<"defaults", "build">>)

\* Mutant: the second placeholder repeats the first.
getHttpEndpoints_RepeatsNode(c, s) ==
    IF Truthy(s)
    THEN LET r == getHttpEndpoint(c)
         IN  IF r.kind = "error" THEN r
             ELSE Return(<<r.value>>, r.steps \o <<"wrap">>)
    ELSE Return(<<V2Url(HostOr(c), "node1", VersionOr(c), NetworkOr(c), SuffixOf(c)),
                  V2Url(HostOr(c), "node1", VersionOr(c), NetworkOr(c), SuffixOf(c)),
                  V2Url(HostOr(c), "node3", VersionOr(c), NetworkOr(c), SuffixOf(c))>>,
                <<"defaults", "build">>)

getHttpEndpoints(c, s) ==
    IF Truthy(s)
    THEN LET r == getHttpEndpoint(c)
         IN  IF r.kind = "error" THEN r
             ELSE Return(<<r.value>>, r.steps \o <<"wrap">>)
    ELSE Return(<<V2Url(HostOr(c), "node1", VersionOr(c), NetworkOr(c), SuffixOf(c)),
                  V2Url(HostOr(c), "node2", VersionOr(c), NetworkOr(c), SuffixOf(c)),
                  V2Url(HostOr(c), "node3", VersionOr(c), NetworkOr(c), SuffixOf(c))>>,
                <<"defaults", "build">>)

getHttpV4Endpoint(c) ==
    IF ProtocolIs(c, "json-rpc")
    THEN Throw(UnsupportedMessage, <<"validate">>)
    ELSE Return(V4Url(HostOr(c), "[node-id]", VersionOr(c), NetworkOr(c)),
                <<"validate", "defaults", "build">>)

\* Mutant: the json-rpc check is left to getHttpV4Endpoint, which only the
\* single path calls.
getHttpV4Endpoints_NoOwnCheck(c, s) ==
    IF Truthy(s)
    THEN LET r == getHttpV4Endpoint(c)
         IN  IF r.kind = "error"
             THEN Throw(r.message, r.steps)
             ELSE Return(<<r.value>>, r.steps \o <<"wrap">>)
    ELSE Return(<<V4Url(HostOr(c), "node1", VersionOr(c), NetworkOr(c)),
                  V4Url(HostOr(c), "node2", VersionOr(c), NetworkOr(c)),
                  V4Url(HostOr(c), "node3", VersionOr(c), NetworkOr(c))>>,
                <<"defaults", "build">>)

\* Mutant: the plural method names itself in its message.
getHttpV4Endpoints_OwnMessage(c, s) ==
    IF ProtocolIs(c, "json-rpc")
    THEN Throw("config.protocol json-rpc is not supported for getHttpV4Endpoints",
               <<"validate">>)
    ELSE IF Truthy(s)
    THEN LET r == getHttpV4Endpoint(c)
         IN  IF r.kind = "error"
             THEN Throw(r.message, <<"validate">> \o r.steps)
             ELSE Return(<<r.value>>, <<"validate">> \o r.steps \o <<"wrap">>)
    ELSE Return(<<V4Url(HostOr(c), "node1", VersionOr(c), NetworkOr(c)),
                  V4Url(HostOr(c), "node2", VersionOr(c), NetworkOr(c)),
                  V4Url(HostOr(c), "node3", VersionOr(c), NetworkOr(c))>>,
                <<"validate", "defaults", "build">>)

\* Mutant: with single the first of the three URLs is returned, and
\* getHttpV4Endpoint is not called.
getHttpV4Endpoints_SingleIsFirstOfThree(c, s) ==
    IF ProtocolIs(c, "json-rpc")
    THEN Throw(UnsupportedMessage, <<"validate">>)
    ELSE IF Truthy(s)
    THEN Return(<<V4Url(HostOr(c), "node1", VersionOr(c), NetworkOr(c))>>,
                <<"validate", "defaults", "build">>)
    ELSE Return(<<V4Url(HostOr(c), "node1", VersionOr(c), NetworkOr(c)),
                  V4Url(HostOr(c), "node2", VersionOr(c), NetworkOr(c)),
                  V4Url(HostOr(c), "node3", VersionOr(c), NetworkOr(c))>>,
                <<"validate", "defaults", "build">>)

getHttpV4Endpoints(c, s) ==
    IF ProtocolIs(c, "json-rpc")
    THEN Throw(UnsupportedMessage, <<"validate">>)
    ELSE IF Truthy(s)
    THEN LET r == getHttpV4Endpoint(c)
         IN  IF r.kind = "error"
             THEN Throw(r.message, <<"validate">> \o r.steps)
             ELSE Return(<<r.value>>, <<"validate">> \o r.steps \o <<"wrap">>)
    ELSE Return(<<V4Url(HostOr(c), "node1", VersionOr(c), NetworkOr(c)),
                  V4Url(HostOr(c), "node2", VersionOr(c), NetworkOr(c)),
                  V4Url(HostOr(c), "node3", VersionOr(c), NetworkOr(c))>>,
                <<"validate", "defaults", "build">>)

\* Mutant: the endpoint is built with the template of the edge URLs.
getAdnlProxyEndpoint_EdgeUrl ==
    Return([endpoint |-> Template(<<"https://", HostOr(<<>>), "/", "[node-id]", "/",
                                    ToString(VersionOr(<<>>)), "/",
                                    NetworkOr(<<>>), "/", "adnl-proxy">>),
            publicKey |-> "sample-public-key"],
           <<"build">>)

getAdnlProxyEndpoint ==
    Return([endpoint |-> <<"ws://", "[node-ip]:30001">>,
            publicKey |-> "sample-public-key"],
           <<"build">>)

\* Mutant: the operation announced as coming soon is not implemented yet.
getAdnlProxyEndpoints_ComingSoon == Throw("not implemented", <<>>)

getAdnlProxyEndpoints ==
    Return(<< <<"ws://", "node1-ip:30001">>,
              <<"ws://", "node2-ip:30001">>,
              <<"ws://", "node3-ip:30001">> >>,
           <<"build">>)

---------------------------------------------------------------------------
(* The standalone exported functions: each makes a TonAccessMCP of its own *)
(* (the class has no field, so an instance carries nothing) and returns    *)
(* what the method of the same name returns for the arguments passed on.   *)

fn_getHttpEndpoint(c) == getHttpEndpoint(c)

\* Mutant: the single argument is not passed on.
fn_getHttpEndpoints_DropsSingle(c, s) == getHttpEndpoints(c, "omitted")

fn_getHttpEndpoints(c, s) == getHttpEndpoints(c, s)

fn_getHttpV4Endpoint(c) == getHttpV4Endpoint(c)

fn_getHttpV4Endpoints(c, s) == getHttpV4Endpoints(c, s)

fn_getAdnlProxyEndpoint == getAdnlProxyEndpoint

fn_getAdnlProxyEndpoints == getAdnlProxyEndpoints

---------------------------------------------------------------------------
(* The environment: node records as interface TonAccessNode declares them *)

\* The key of Mngr.health: protocol + ":" + network.
HealthKey(protocol, network) == protocol \o ":" \o network

\* Mngr.health of a node that serves every HTTP protocol on every network.
AllUp ==
    [k \in {HealthKey(p, n) : p \in {"toncenter-api-v2", "ton-api-v4"}, n \in Network}
        |-> TRUE]

\* Mngr.health of a node that serves toncenter-api-v2 on mainnet only and
\* reports nothing for testnet.
MainnetV2Only ==
    (HealthKey("toncenter-api-v2", "mainnet") :> TRUE)
        @@ (HealthKey("ton-api-v4", "mainnet") :> FALSE)

\* A node record, with the fields of TonAccessNode that selection reads.
Node(id, healthy, health) ==
    [NodeId |-> id, Weight |-> 1, Healthy |-> healthy, Mngr |-> [health |-> health]]

\* The fleets the manager can report: at most one record per node id.  The
\* id "node1" is also one of the placeholders the code returns.
Fleets ==
    { a \cup b :
        a \in {{}, {Node("node1", "1", AllUp)}, {Node("node1", "0", AllUp)},
               {Node("node1", "1", MainnetV2Only)}},
        b \in {{}, {Node("b7e9", "1", AllUp)}} }

---------------------------------------------------------------------------
(* State machine *)

NoResult == [kind |-> "none"]

Init ==
    /\ pc = "idle"
    /\ op = "none"
    /\ via = "none"
    /\ config = <<>>
    /\ single = "omitted"
    /\ result = NoResult
    /\ snapshot = [nodes |-> {Node("node1", "1", AllUp), Node("b7e9", "1", AllUp)},
                   age |-> 0]
    /\ managerUp = TRUE

\* A call of a method is one step: the async function runs to its outcome.
GetHttpEndpoint ==
    /\ pc = "idle"
    /\ \E c \in ConfigArgs :
          /\ pc' = "done"
          /\ op' = "getHttpEndpoint"
          /\ via' = "method"
          /\ config' = c
          /\ single' = "omitted"
          /\ result' = getHttpEndpoint(c)
    /\ UNCHANGED envVars

GetHttpEndpoints ==
    /\ pc = "idle"
    /\ \E c \in ConfigArgs, s \in SingleArgs :
          /\ pc' = "done"
          /\ op' = "getHttpEndpoints"
          /\ via' = "method"
          /\ config' = c
          /\ single' = s
          /\ result' = getHttpEndpoints(c, s)
    /\ UNCHANGED envVars

\* Mutant: a call that is rejected leaves its mark outside the call.
GetHttpV4Endpoint_FailureChangesState ==
    /\ pc = "idle"
    /\ \E c \in ConfigArgs :
          /\ pc' = "done"
          /\ op' = "getHttpV4Endpoint"
          /\ via' = "method"
          /\ config' = c
          /\ single' = "omitted"
          /\ result' = getHttpV4Endpoint(c)
          /\ managerUp' = (managerUp /\ getHttpV4Endpoint(c).kind # "error")
    /\ UNCHANGED snapshot

GetHttpV4Endpoint ==
    /\ pc = "idle"
    /\ \E c \in ConfigArgs :
          /\ pc' = "done"
          /\ op' = "getHttpV4Endpoint"
          /\ via' = "method"
          /\ config' = c
          /\ single' = "omitted"
          /\ result' = getHttpV4Endpoint(c)
    /\ UNCHANGED envVars

GetHttpV4Endpoints ==
    /\ pc = "idle"
    /\ \E c \in ConfigArgs, s \in SingleArgs :
          /\ pc' = "done"
          /\ op' = "getHttpV4Endpoints"
          /\ via' = "method"
          /\ config' = c
          /\ single' = s
          /\ result' = getHttpV4Endpoints(c, s)
    /\ UNCHANGED envVars

GetAdnlProxyEndpoint ==
    /\ pc = "idle"
    /\ pc' = "done"
    /\ op' = "getAdnlProxyEndpoint"
    /\ via' = "method"
    /\ config' = <<>>
    /\ single' = "omitted"
    /\ result' = getAdnlProxyEndpoint
    /\ UNCHANGED envVars

GetAdnlProxyEndpoints ==
    /\ pc = "idle"
    /\ pc' = "done"
    /\ op' = "getAdnlProxyEndpoints"
    /\ via' = "method"
    /\ config' = <<>>
    /\ single' = "omitted"
    /\ result' = getAdnlProxyEndpoints
    /\ UNCHANGED envVars

\* A call of a standalone exported function.
ExportGetHttpEndpoint ==
    /\ pc = "idle"
    /\ \E c \in ConfigArgs :
          /\ pc' = "done"
          /\ op' = "getHttpEndpoint"
          /\ via' = "function"
          /\ config' = c
          /\ single' = "omitted"
          /\ result' = fn_getHttpEndpoint(c)
    /\ UNCHANGED envVars

ExportGetHttpEndpoints ==
    /\ pc = "idle"
    /\ \E c \in ConfigArgs, s \in SingleArgs :
          /\ pc' = "done"
          /\ op' = "getHttpEndpoints"
          /\ via' = "function"
          /\ config' = c
          /\ single' = s
          /\ result' = fn_getHttpEndpoints(c, s)
    /\ UNCHANGED envVars

ExportGetHttpV4Endpoint ==
    /\ pc = "idle"
    /\ \E c \in ConfigArgs :
          /\ pc' = "done"
          /\ op' = "getHttpV4Endpoint"
          /\ via' = "function"
          /\ config' = c
          /\ single' = "omitted"
          /\ result' = fn_getHttpV4Endpoint(c)
    /\ UNCHANGED envVars

ExportGetHttpV4Endpoints ==
    /\ pc = "idle"
    /\ \E c \in ConfigArgs, s \in SingleArgs :
          /\ pc' = "done"
          /\ op' = "getHttpV4Endpoints"
          /\ via' = "function"
          /\ config' = c
          /\ single' = s
          /\ result' = fn_getHttpV4Endpoints(c, s)
    /\ UNCHANGED envVars

ExportGetAdnlProxyEndpoint ==
    /\ pc = "idle"
    /\ pc' = "done"
    /\ op' = "getAdnlProxyEndpoint"
    /\ via' = "function"
    /\ config' = <<>>
    /\ single' = "omitted"
    /\ result' = fn_getAdnlProxyEndpoint
    /\ UNCHANGED envVars

ExportGetAdnlProxyEndpoints ==
    /\ pc = "idle"
    /\ pc' = "done"
    /\ op' = "getAdnlProxyEndpoints"
    /\ via' = "function"
    /\ config' = <<>>
    /\ single' = "omitted"
    /\ result' = fn_getAdnlProxyEndpoints
    /\ UNCHANGED envVars

\* The caller takes the outcome of the settled promise.
Settle ==
    /\ pc = "done"
    /\ pc' = "idle"
    /\ op' = "none"
    /\ via' = "none"
    /\ config' = <<>>
    /\ single' = "omitted"
    /\ result' = NoResult
    /\ UNCHANGED envVars

\* Environment: a minute passes.
Tick ==
    /\ pc = "idle"
    /\ snapshot.age < MaxAge
    /\ snapshot' = [snapshot EXCEPT !.age = @ + 1]
    /\ UNCHANGED <<callVars, managerUp>>

\* Environment: the manager reports the fleet anew.
Publish ==
    /\ pc = "idle"
    /\ managerUp
    /\ \E f \in Fleets : snapshot' = [nodes |-> f, age |-> 0]
    /\ UNCHANGED <<callVars, managerUp>>

\* Environment: the manager becomes unreachable, or reachable again.
ManagerFlip ==
    /\ pc = "idle"
    /\ managerUp' = ~managerUp
    /\ UNCHANGED <<callVars, snapshot>>

Next ==
    \/ GetHttpEndpoint
    \/ GetHttpEndpoints
    \/ GetHttpV4Endpoint
    \/ GetHttpV4Endpoints
    \/ GetAdnlProxyEndpoint
    \/ GetAdnlProxyEndpoints
    \/ ExportGetHttpEndpoint
    \/ ExportGetHttpEndpoints
    \/ ExportGetHttpV4Endpoint
    \/ ExportGetHttpV4Endpoints
    \/ ExportGetAdnlProxyEndpoint
    \/ ExportGetAdnlProxyEndpoints
    \/ Settle
    \/ Tick
    \/ Publish
    \/ ManagerFlip

Spec == Init /\ [][Next]_vars

\* The calls alone, in an environment that stands still: every operation
\* applied to every argument tuple, as a method and as a standalone
\* function.
NextCall ==
    \/ GetHttpEndpoint
    \/ GetHttpEndpoints
    \/ GetHttpV4Endpoint
    \/ GetHttpV4Endpoints
    \/ GetAdnlProxyEndpoint
    \/ GetAdnlProxyEndpoints
    \/ ExportGetHttpEndpoint
    \/ ExportGetHttpEndpoints
    \/ ExportGetHttpV4Endpoint
    \/ ExportGetHttpV4Endpoints
    \/ ExportGetAdnlProxyEndpoint
    \/ ExportGetAdnlProxyEndpoints
    \/ Settle

CallSpec == Init /\ [][NextCall]_vars

TypeOK ==
    /\ pc \in {"idle", "done"}
    /\ via \in {"none", "method", "function"}
    /\ config \in ConfigArgs
    /\ single \in SingleArgs
    /\ result.kind \in {"none", "ok", "error"}
    /\ snapshot.nodes \in Fleets
    /\ snapshot.age \in 0..MaxAge
    /\ managerUp \in BOOLEAN

---------------------------------------------------------------------------
(* Vocabulary of the properties: what a caller asked for, and what a       *)
(* returned URL says, read off the URL itself.                             *)

HttpOps == {"getHttpEndpoint", "getHttpEndpoints"}
V4Ops == {"getHttpV4Endpoint", "getHttpV4Endpoints"}
MultiOps == {"getHttpEndpoints", "getHttpV4Endpoints"}

\* The protocol an operation resolves.
ProtocolOfOp(o) == IF o \in HttpOps THEN "toncenter-api-v2" ELSE "ton-api-v4"

\* The protocol format the caller asked for ("omitted" when not given).
RequestedFormat(c) ==
    IF c = <<>> \/ "protocol" \notin DOMAIN c[1] THEN "omitted" ELSE c[1].protocol

\* The network the caller asked for: mainnet when omitted.
RequestedNetwork(c) ==
    IF c = <<>> \/ "network" \notin DOMAIN c[1] THEN "mainnet" ELSE c[1].network

\* The host the caller asked for: the default edge host when omitted.
RequestedHost(c) ==
    IF c = <<>> \/ "host" \notin DOMAIN c[1] THEN "ton.access.orbs.network"
    ELSE c[1].host

\* The URL version the caller asked for, as text: 1 when omitted.
RequestedVersion(c) ==
    IF c = <<>> \/ "accessVersion" \notin DOMAIN c[1] THEN "1"
    ELSE ToString(c[1].accessVersion)

\* A config of the documented domain: a host, when given, is a host name
\* and an access version, when given, is a positive integer.
InDomain(c) ==
    \/ c = <<>>
    \/ /\ ("host" \in DOMAIN c[1] => c[1].host # "")
       /\ ("accessVersion" \in DOMAIN c[1] => c[1].accessVersion >= 1)

RECURSIVE SplitPath(_, _, _)
\* The text between the separators of a tokenised path, in order; the
\* text after a trailing separator is the empty string.
SplitPath(tokens, cur, acc) ==
    IF tokens = <<>> THEN Append(acc, cur)
    ELSE IF Head(tokens) = "/"
         THEN SplitPath(Tail(tokens), "", Append(acc, cur))
         ELSE SplitPath(Tail(tokens), cur \o Head(tokens), acc)

\* The segments of a URL: host, node id, version, network, protocol and,
\* when the URL goes on after the protocol, the suffix.
Segments(url) == SplitPath(Tail(url), "", <<>>)

\* What the method named o of a TonAccessMCP gives for the arguments.
MethodOutcome(o, c, s) ==
    CASE o = "getHttpEndpoint" -> getHttpEndpoint(c)
      [] o = "getHttpEndpoints" -> getHttpEndpoints(c, s)
      [] o = "getHttpV4Endpoint" -> getHttpV4Endpoint(c)
      [] o = "getHttpV4Endpoints" -> getHttpV4Endpoints(c, s)
      [] o = "getAdnlProxyEndpoint" -> getAdnlProxyEndpoint
      [] o = "getAdnlProxyEndpoints" -> getAdnlProxyEndpoints

\* What the standalone exported function named o gives for the arguments.
FunctionOutcome(o, c, s) ==
    CASE o = "getHttpEndpoint" -> fn_getHttpEndpoint(c)
      [] o = "getHttpEndpoints" -> fn_getHttpEndpoints(c, s)
      [] o = "getHttpV4Endpoint" -> fn_getHttpV4Endpoint(c)
      [] o = "getHttpV4Endpoints" -> fn_getHttpV4Endpoints(c, s)
      [] o = "getAdnlProxyEndpoint" -> fn_getAdnlProxyEndpoint
      [] o = "getAdnlProxyEndpoints" -> fn_getAdnlProxyEndpoints

\* What a call made the way w ("method" or "function") gives.
Outcome(w, o, c, s) ==
    IF w = "function" THEN FunctionOutcome(o, c, s) ELSE MethodOutcome(o, c, s)

\* The fields of a config, and the default the documentation gives each.
ConfigFields == {"network", "host", "accessVersion", "protocol"}

DefaultOf(f) ==
    CASE f = "network" -> "mainnet"
      [] f = "host" -> "ton.access.orbs.network"
      [] f = "accessVersion" -> 1
      [] f = "protocol" -> "default"

\* The config c with the field f set to v (an omitted config is taken as
\* the empty object).
WithField(c, f, v) == << (f :> v) @@ (IF c = <<>> THEN EmptyObject ELSE c[1]) >>

\* The config c with the field f left out.
WithoutField(c, f) ==
    IF c = <<>> THEN <<>>
    ELSE << [g \in (DOMAIN c[1]) \ {f} |-> c[1][g]] >>

RECURSIVE FillDefaults(_, _)
\* The config c with every omitted field among fs set to its default.
FillDefaults(c, fs) ==
    IF fs = {} THEN c
    ELSE LET f == CHOOSE g \in fs : TRUE
             d == IF Has(c, f) THEN c ELSE WithField(c, f, DefaultOf(f))
         IN  FillDefaults(d, fs \ {f})

\* The URLs of an outcome r of the operation o, in the order returned.
UrlsOf(o, r) ==
    IF r.kind # "ok" THEN <<>>
    ELSE IF o \in MultiOps THEN r.value ELSE <<r.value>>

\* The options that name a segment of the URL, the segment each names and
\* the values a caller may give each.
SegmentOptions == {"network", "host", "accessVersion"}

SegmentOf(f) ==
    CASE f = "host" -> 1
      [] f = "accessVersion" -> 3
      [] f = "network" -> 4

ValuesOf(f) ==
    CASE f = "host" -> Hosts
      [] f = "accessVersion" -> AccessVersions
      [] f = "network" -> Network

\* The configs that differ from c in the option f and in nothing else.
DifferingIn(c, f) ==
    ({WithField(c, f, v) : v \in ValuesOf(f)} \cup {WithoutField(c, f)})
        \ {c, WithField(c, f, IF Has(c, f) THEN c[1][f] ELSE DefaultOf(f))}

\* Every call that can be made: how, which operation, which arguments.
Calls ==
    [via : {"method", "function"}, op : (HttpOps \cup V4Ops) \ MultiOps,
     config : ConfigArgs, single : {"omitted"}]
    \cup [via : {"method", "function"}, op : MultiOps,
          config : ConfigArgs, single : SingleArgs]
    \cup [via : {"method", "function"},
          op : {"getAdnlProxyEndpoint", "getAdnlProxyEndpoints"},
          config : {<<>>}, single : {"omitted"}]

\* The call outstanding, if any.
CallAtHand ==
    IF pc = "done"
    THEN {[via |-> via, op |-> op, config |-> config, single |-> single]}
    ELSE {}

\* The single-endpoint operation that matches a multi-endpoint one.
SingleOpOf(o) ==
    IF o = "getHttpEndpoints" THEN "getHttpEndpoint" ELSE "getHttpV4Endpoint"

\* The stages of a resolution a call went through, in order, read off its
\* statement log: fetching, filtering, selecting, building.
Stages(st) == SelectSeq(st, LAMBDA x : x \in {"fetch", "filter", "select", "build"})

\* No call outstanding: nothing of a call is left.
Quiescent ==
    /\ pc = "idle"
    /\ op = "none"
    /\ via = "none"
    /\ config = <<>>
    /\ single = "omitted"
    /\ result = NoResult

\* The URLs a settled call returned.
ReturnedUrls ==
    IF result.kind # "ok" \/ op \notin HttpOps \cup V4Ops THEN {}
    ELSE IF op \in MultiOps THEN {result.value[i] : i \in DOMAIN result.value}
    ELSE {result.value}

\* The number of network fetches among the statements a call went through.
Fetches(st) == Cardinality({i \in DOMAIN st : st[i] = "fetch"})

\* The health filter: a node passes for (protocol, network) when it is
\* healthy overall and its health map holds TRUE under the key
\* protocol:network; a missing key excludes the node.
PassesHealthFilter(node, protocol, network) ==
    /\ node.Healthy = "1"
    /\ HealthKey(protocol, network) \in DOMAIN node.Mngr.health
    /\ node.Mngr.health[HealthKey(protocol, network)]

HealthyFor(nodes, protocol, network) ==
    {node \in nodes : PassesHealthFilter(node, protocol, network)}

\* The age, in minutes, past which the manager's data is stale.
StalePeriodMinutes == 10

\* The number of endpoints a multi-endpoint call returns at most.
FanOut == 3

\* The documented error messages of a resolution.
AllNodesStaleMessage == "all nodes manager's data are stale"

NoHealthyNodesMessage(protocol, network) ==
    "no healthy nodes for " \o HealthKey(protocol, network)

---------------------------------------------------------------------------
(* C1: a V4 operation called with protocol format json-rpc, whatever the   *)
(* network, host, access version and single, ends in the unsupported-      *)
(* protocol error, and the check that rejects it is the only statement the *)
(* call went through: no fetch, no defaulting, no URL building.            *)
C1_JsonRpcRejectedFirst ==
    (pc = "done" /\ op \in V4Ops /\ RequestedFormat(config) = "json-rpc")
        => /\ result.kind = "error"
           /\ result.message = UnsupportedMessage
           /\ result.steps = <<"validate">>
           /\ Fetches(result.steps) = 0

C1_Witness ==
    /\ pc = "done"
    /\ op = "getHttpV4Endpoints"
    /\ single = "false"
    /\ RequestedFormat(config) = "json-rpc"
    /\ RequestedNetwork(config) = "testnet"
    /\ result.kind = "error"

(* C2: with protocol format rest, every URL of getHttpEndpoint and         *)
(* getHttpEndpoints has no jsonRPC segment and no trailing slash: it ends  *)
(* exactly with "/toncenter-api-v2".                                       *)
C2_RestNoTrailingSlash ==
    (pc = "done" /\ op \in HttpOps /\ RequestedFormat(config) = "rest")
        => \A url \in ReturnedUrls :
              /\ \A i \in DOMAIN url : url[i] # "jsonRPC"
              /\ url[Len(url)] # "/"
              /\ SubSeq(url, Len(url) - 1, Len(url)) = <<"/", "toncenter-api-v2">>

(* C3: getHttpEndpoints(config, true) settles as getHttpEndpoint(config)   *)
(* does: a sequence of exactly one element, the URL getHttpEndpoint        *)
(* returns, or the same error.                                             *)
C3_SingleWrapsGetHttpEndpoint ==
    (pc = "done" /\ op = "getHttpEndpoints" /\ single = "true")
        => LET one == getHttpEndpoint(config)
           IN  /\ result.kind = one.kind
               /\ one.kind = "ok" =>
                     /\ Len(result.value) = 1
                     /\ result.value[1] = one.value
               /\ one.kind = "error" => result.message = one.message

C3_Witness ==
    /\ pc = "done"
    /\ op = "getHttpEndpoints"
    /\ single = "true"
    /\ RequestedFormat(config) = "rest"
    /\ result.kind = "ok"
    /\ Len(result.value) = 1

(* C4: in every URL a resolution returns, the network segment is the       *)
(* requested network (mainnet when omitted) and the protocol segment is    *)
(* the protocol of the operation.                                          *)
C4_NetworkAndProtocolMatch ==
    (pc = "done" /\ op \in HttpOps \cup V4Ops)
        => \A url \in ReturnedUrls :
              /\ Len(Segments(url)) >= 5
              /\ Segments(url)[4] = RequestedNetwork(config)
              /\ Segments(url)[5] = ProtocolOfOp(op)

C4_Witness ==
    /\ pc = "done"
    /\ op = "getHttpV4Endpoints"
    /\ single = "omitted"
    /\ RequestedNetwork(config) = "testnet"
    /\ result.kind = "ok"
    /\ \E url \in ReturnedUrls : Segments(url)[4] = "testnet"

(* C5: with protocol format default, json-rpc or omitted, getHttpEndpoint  *)
(* returns exactly https://{host}/{nodeId}/{version}/{network}/            *)
(* toncenter-api-v2/jsonRPC: these six segments in this order, nothing     *)
(* else, the same for the three formats.                                   *)
C5_ExactJsonRpcUrl ==
    (/\ pc = "done"
     /\ op = "getHttpEndpoint"
     /\ RequestedFormat(config) \in {"default", "json-rpc", "omitted"}
     /\ InDomain(config))
        => /\ result.kind = "ok"
           /\ \E nodeId \in {Segments(result.value)[2]} :
                 /\ nodeId # ""
                 /\ result.value =
                       <<"https://", RequestedHost(config), "/", nodeId, "/",
                         RequestedVersion(config), "/", RequestedNetwork(config),
                         "/", "toncenter-api-v2", "/", "jsonRPC">>

C5_Witness ==
    /\ pc = "done"
    /\ op = "getHttpEndpoint"
    /\ RequestedFormat(config) = "json-rpc"
    /\ RequestedHost(config) = "my.edge.host"
    /\ RequestedVersion(config) = "2"
    /\ RequestedNetwork(config) = "testnet"
    /\ result.kind = "ok"
    /\ Segments(result.value)
          = <<"my.edge.host", "[node-id]", "2", "testnet", "toncenter-api-v2", "jsonRPC">>

(* C6: a resolution made while the manager is unreachable fails with the   *)
(* all-nodes-stale error when the manager's data is older than the         *)
(* staleness threshold, and is served from that data when it is not.       *)
C6_StaleDataRefused ==
    (/\ pc = "done"
     /\ op \in HttpOps \cup V4Ops
     /\ ~(op \in V4Ops /\ RequestedFormat(config) = "json-rpc")
     /\ ~managerUp)
        => IF snapshot.age > StalePeriodMinutes
           THEN result.kind = "error" /\ result.message = AllNodesStaleMessage
           ELSE result.kind = "error" => result.message # AllNodesStaleMessage

(* C7: when no node of the fleet passes the health filter for the          *)
(* requested protocol and network, the resolution returns no URL and ends  *)
(* in the no-healthy-nodes error, whose message names the protocol and the *)
(* network.                                                                *)
C7_EmptyFilterIsNoHealthyNodes ==
    (/\ pc = "done"
     /\ op \in HttpOps \cup V4Ops
     /\ ~(op \in V4Ops /\ RequestedFormat(config) = "json-rpc")
     /\ HealthyFor(snapshot.nodes, ProtocolOfOp(op), RequestedNetwork(config)) = {})
        => /\ result.kind = "error"
           /\ result.message =
                 NoHealthyNodesMessage(ProtocolOfOp(op), RequestedNetwork(config))

(* C8: every URL a resolution returns carries the node id of a node of the *)
(* latest snapshot that passes the health filter for the requested         *)
(* protocol and network.                                                   *)
C8_ReturnedNodeIsHealthy ==
    (pc = "done" /\ op \in HttpOps \cup V4Ops)
        => \A url \in ReturnedUrls :
              \E node \in HealthyFor(snapshot.nodes, ProtocolOfOp(op),
                                     RequestedNetwork(config)) :
                 node.NodeId = Segments(url)[2]

(* C10: getHttpEndpoints and getHttpV4Endpoints, called with single false  *)
(* or omitted, return at most 3 endpoints, and no two of them name the     *)
(* same node.                                                              *)
C10_AtMostThreeDistinctNodes ==
    (pc = "done" /\ op \in MultiOps /\ single # "true" /\ result.kind = "ok")
        => /\ Len(result.value) <= FanOut
           /\ \A i, j \in DOMAIN result.value :
                 i # j => Segments(result.value[i])[2] # Segments(result.value[j])[2]

C10_Witness ==
    /\ pc = "done"
    /\ op = "getHttpV4Endpoints"
    /\ single = "false"
    /\ result.kind = "ok"
    /\ Len(result.value) = FanOut
    /\ {Segments(result.value[i])[2] : i \in DOMAIN result.value}
          = {"node1", "node2", "node3"}

(* C15: a call with no config, or with a field omitted, settles exactly    *)
(* as the call with that field set to its default does: network mainnet,   *)
(* host ton.access.orbs.network, accessVersion 1, protocol format default; *)
(* and as the call with every omitted field set to its default does.       *)
C15_OmittedIsDefault ==
    (pc = "done" /\ op \in HttpOps \cup V4Ops)
        => /\ \A f \in ConfigFields :
                 ~Has(config, f) =>
                    result = Outcome(via, op, WithField(config, f, DefaultOf(f)),
                                     single)
           /\ result = Outcome(via, op, FillDefaults(config, ConfigFields), single)

C15_Witness ==
    /\ pc = "done"
    /\ op = "getHttpV4Endpoints"
    /\ Has(config, "network") /\ config[1].network = "testnet"
    /\ ~Has(config, "host")
    /\ ~Has(config, "accessVersion")
    /\ ~Has(config, "protocol")
    /\ result.kind = "ok"
    /\ \A i \in DOMAIN result.value :
          /\ Segments(result.value[i])[1] = "ton.access.orbs.network"
          /\ Segments(result.value[i])[3] = "1"

(* C16: network, host and accessVersion are independently settable: the    *)
(* same call with a config that differs in exactly one of them returns as  *)
(* many URLs, and each agrees with its counterpart in every segment but    *)
(* the one the option names; an accessVersion >= 1 is the version segment  *)
(* as given, and a host that is given (not the empty string) is the host   *)
(* as given.                                                               *)
C16_OptionsIndependent ==
    (pc = "done" /\ op \in HttpOps \cup V4Ops /\ result.kind = "ok")
        => LET urls == UrlsOf(op, result)
           IN  /\ \A f \in SegmentOptions :
                     \A c2 \in DifferingIn(config, f) :
                        LET urls2 == UrlsOf(op, Outcome(via, op, c2, single))
                        IN  /\ Len(urls2) = Len(urls)
                            /\ \A i \in DOMAIN urls :
                                  LET segs == Segments(urls[i])
                                      segs2 == Segments(urls2[i])
                                  IN  /\ Head(urls2[i]) = Head(urls[i])
                                      /\ Len(segs2) = Len(segs)
                                      /\ \A k \in DOMAIN segs :
                                            k # SegmentOf(f) => segs2[k] = segs[k]
               /\ \A i \in DOMAIN urls :
                     /\ (Has(config, "accessVersion") /\ config[1].accessVersion >= 1)
                           => Segments(urls[i])[3] = ToString(config[1].accessVersion)
                     /\ (Has(config, "host") /\ config[1].host # "")
                           => Segments(urls[i])[1] = config[1].host

C16_Witness ==
    /\ pc = "done"
    /\ op = "getHttpEndpoints"
    /\ single # "true"
    /\ result.kind = "ok"
    /\ Has(config, "host") /\ config[1].host = "my.edge.host"
    /\ Has(config, "accessVersion") /\ config[1].accessVersion = 2
    /\ Has(config, "network") /\ config[1].network = "testnet"
    /\ \A i \in DOMAIN result.value :
          /\ Segments(result.value[i])[1] = "my.edge.host"
          /\ Segments(result.value[i])[3] = "2"
          /\ Segments(result.value[i])[4] = "testnet"
    /\ \E c2 \in DifferingIn(config, "accessVersion") :
          \E i \in DOMAIN result.value :
             Segments(MethodOutcome(op, c2, single).value[i])[3] = "1"

(* C17: every URL getHttpV4Endpoint and getHttpV4Endpoints return, for a   *)
(* config they accept (format default, rest or omitted), ends exactly with *)
(* "/{network}/ton-api-v4": the protocol is the last segment, with no      *)
(* suffix segment and no trailing slash, whatever the format; and every    *)
(* accepted config is given URLs.                                          *)
C17_V4EndsWithProtocol ==
    (pc = "done" /\ op \in V4Ops /\ RequestedFormat(config) # "json-rpc")
        => /\ result.kind = "ok"
           /\ Len(UrlsOf(op, result)) >= 1
           /\ \A url \in ReturnedUrls :
                 /\ Len(url) >= 4
                 /\ SubSeq(url, Len(url) - 3, Len(url))
                       = <<"/", RequestedNetwork(config), "/", "ton-api-v4">>
                 /\ Len(Segments(url)) = 5

C17_Witness ==
    /\ pc = "done"
    /\ op = "getHttpV4Endpoints"
    /\ single = "false"
    /\ RequestedFormat(config) = "rest"
    /\ RequestedNetwork(config) = "testnet"
    /\ result.kind = "ok"
    /\ Len(result.value) = 3
    /\ \A i \in DOMAIN result.value :
          SubSeq(result.value[i], Len(result.value[i]) - 3, Len(result.value[i]))
             = <<"/", "testnet", "/", "ton-api-v4">>

(* C18: getHttpV4Endpoints(config, true) settles as getHttpV4Endpoint      *)
(* (config) does: for a config the V4 operations accept, a sequence of     *)
(* exactly one element, the URL getHttpV4Endpoint returns; for a json-rpc  *)
(* config, the same error.                                                 *)
C18_SingleWrapsGetHttpV4Endpoint ==
    (pc = "done" /\ op = "getHttpV4Endpoints" /\ single = "true")
        => LET one == Outcome(via, "getHttpV4Endpoint", config, "omitted")
           IN  IF RequestedFormat(config) = "json-rpc"
               THEN /\ result.kind = "error"
                    /\ one.kind = "error"
                    /\ result.message = one.message
               ELSE /\ result.kind = "ok"
                    /\ one.kind = "ok"
                    /\ Len(result.value) = 1
                    /\ result.value[1] = one.value

C18_Witness ==
    /\ pc = "done"
    /\ op = "getHttpV4Endpoints"
    /\ single = "true"
    /\ RequestedFormat(config) = "default"
    /\ RequestedNetwork(config) = "testnet"
    /\ result.kind = "ok"
    /\ Len(result.value) = 1
    /\ Segments(result.value[1])[2] = "[node-id]"

(* C19: each standalone exported function settles, for every argument      *)
(* tuple, as the TonAccessMCP method of the same name does for the same    *)
(* arguments: the same value, or the same error.                           *)
C19_FunctionsAsMethods ==
    (pc = "done" /\ via = "function")
        => LET m == MethodOutcome(op, config, single)
           IN  /\ result.kind = m.kind
               /\ m.kind = "ok" => result.value = m.value
               /\ m.kind = "error" => result.message = m.message

C19_Witness ==
    /\ pc = "done"
    /\ via = "function"
    /\ op = "getHttpEndpoints"
    /\ single = "true"
    /\ RequestedFormat(config) = "rest"
    /\ result.kind = "ok"
    /\ Len(result.value) = 1
    /\ Len(MethodOutcome(op, config, "omitted").value) = FanOut

(* C20: getAdnlProxyEndpoint returns a pair of exactly the fields endpoint *)
(* and publicKey; the endpoint has no http or https scheme and is not of   *)
(* the shape https://{host}/{nodeId}/{version}/{network}/{protocol} (it    *)
(* has no path separator, so a single segment, not five); and no config    *)
(* value reaches the result: it is what the operation gives for any        *)
(* config.                                                                 *)
C20_AdnlProxyIsNotAnEdgeUrl ==
    (pc = "done" /\ op = "getAdnlProxyEndpoint")
        => /\ result.kind = "ok"
           /\ DOMAIN result.value = {"endpoint", "publicKey"}
           /\ Head(result.value.endpoint) \notin {"http://", "https://"}
           /\ \A i \in DOMAIN result.value.endpoint :
                 result.value.endpoint[i] # "/"
           /\ Len(Segments(result.value.endpoint)) = 1
           /\ \A c \in ConfigArgs : Outcome(via, op, c, single) = result

C20_Witness ==
    /\ pc = "done"
    /\ op = "getAdnlProxyEndpoint"
    /\ result.kind = "ok"
    /\ result.value.endpoint = <<"ws://", "[node-ip]:30001">>
    /\ result.value.publicKey = "sample-public-key"

(* C21: an error is scoped to the call that raised it.  Whenever no call   *)
(* is outstanding nothing of an earlier call is left; the step in which a  *)
(* call ends in an error changes nothing outside the call; and the step    *)
(* that settles it leaves nothing of the call.  The state after a failed   *)
(* call is therefore the state before it, and a later call starts from     *)
(* the state it would have started from without the failed call.           *)
C21_ErrorScopedToCall ==
    /\ [](pc = "idle" => Quiescent)
    /\ [][ ((pc = "idle" /\ pc' = "done" /\ result'.kind = "error")
               => UNCHANGED envVars)
           /\ ((pc = "done" /\ result.kind = "error")
               => (Quiescent' /\ UNCHANGED envVars)) ]_vars

C21_Witness ==
    /\ pc = "done"
    /\ op = "getHttpV4Endpoints"
    /\ single = "false"
    /\ result.kind = "error"
    /\ result.message = UnsupportedMessage
    /\ ~managerUp
    /\ snapshot.age > 0

(* C22: every settled resolution call went through fetching, filtering,    *)
(* selecting and building, in that order, when it returned a URL, and      *)
(* ended in an error only out of fetching or out of filtering.             *)
C22_StagesInOrder ==
    (pc = "done" /\ op \in HttpOps \cup V4Ops)
        => IF result.kind = "ok"
           THEN Stages(result.steps) = <<"fetch", "filter", "select", "build">>
           ELSE Stages(result.steps) \in {<<"fetch">>, <<"fetch", "filter">>}

(* C23: getHttpV4Endpoint and getHttpV4Endpoints, called with a json-rpc   *)
(* config, end in an error whose message is exactly                        *)
(* "config.protocol json-rpc is not supported for getTonApiV4Endpoints":   *)
(* the same text for both operations, for single true, false or omitted,   *)
(* and for the method and the standalone function.                         *)
C23_ExactUnsupportedMessage ==
    (pc = "done" /\ op \in V4Ops /\ RequestedFormat(config) = "json-rpc")
        => /\ result.kind = "error"
           /\ result.message
                 = "config.protocol json-rpc is not supported for getTonApiV4Endpoints"

C23_Witness ==
    /\ pc = "done"
    /\ op = "getHttpV4Endpoints"
    /\ single = "true"
    /\ via = "function"
    /\ RequestedFormat(config) = "json-rpc"
    /\ RequestedNetwork(config) = "testnet"
    /\ result.kind = "error"

C26_FalsyIsDefault ==
    (pc = "done" /\ op \in HttpOps \cup V4Ops /\ result.kind = "ok")
        => /\ \A url \in ReturnedUrls :
                 LET segs == Segments(url)
                 IN  /\ segs[3] # "0"
                     /\ segs[1] # ""
                     /\ (Has(config, "accessVersion") /\ config[1].accessVersion = 0)
                           => segs[3] = "1"
                     /\ (Has(config, "host") /\ config[1].host = "")
                           => segs[1] = "ton.access.orbs.network"
           /\ (Has(config, "accessVersion") /\ config[1].accessVersion = 0)
                 => result = Outcome(via, op, WithField(config, "accessVersion", 1),
                                     single)

C26_Witness ==
    /\ pc = "done"
    /\ op = "getHttpV4Endpoint"
    /\ Has(config, "accessVersion") /\ config[1].accessVersion = 0
    /\ Has(config, "host") /\ config[1].host = ""
    /\ result.kind = "ok"
    /\ Segments(result.value)[1] = "ton.access.orbs.network"
    /\ Segments(result.value)[3] = "1"

(* C27: the URLs a multi-endpoint call returns with single false agree     *)
(* with the URL of the matching single-endpoint call for the same config,  *)
(* and so with each other, in scheme, host, version, network, protocol and *)
(* suffix: every segment but the node id; and a call with single omitted   *)
(* settles exactly as the call with single false does.                     *)
C27_MultiAgreeButNodeId ==
    (pc = "done" /\ op \in MultiOps /\ single # "true")
        => LET one == Outcome(via, SingleOpOf(op), config, "omitted")
           IN  /\ result = Outcome(via, op, config, "false")
               /\ result = Outcome(via, op, config, "omitted")
               /\ result.kind = one.kind
               /\ result.kind = "ok" =>
                     \A i \in DOMAIN result.value :
                        LET segs == Segments(result.value[i])
                            segs1 == Segments(one.value)
                        IN  /\ Head(result.value[i]) = Head(one.value)
                            /\ Len(segs) = Len(segs1)
                            /\ \A k \in DOMAIN segs :
                                  IF k = 2 THEN segs[k] # segs1[k]
                                  ELSE segs[k] = segs1[k]

C27_Witness ==
    /\ pc = "done"
    /\ op = "getHttpEndpoints"
    /\ single = "omitted"
    /\ RequestedFormat(config) = "rest"
    /\ RequestedNetwork(config) = "testnet"
    /\ Has(config, "host") /\ config[1].host = "my.edge.host"
    /\ result.kind = "ok"
    /\ Len(result.value) = FanOut
    /\ \A i \in DOMAIN result.value :
          /\ Segments(result.value[i])[1] = "my.edge.host"
          /\ Segments(result.value[i])[4] = "testnet"

===========================================================================
